---- MODULE Spec2Model ----
(***************************************************************************)
(* Model of src/app.py: the three-stage DANFE pipeline                     *)
(*   preclean_pdf_remove_overflow_by_blocks -> extract_text_from_pdf ->    *)
(*   create_individual_page_pdf, driven by processar_pdf.                  *)
(* Text is a sequence of one-character strings, so that the string         *)
(* operations of the code (in, index, strip, split, upper, isdigit, re)    *)
(* are computed and not assumed.                                           *)
(***************************************************************************)
EXTENDS Integers, Sequences, FiniteSets, TLC

(***************************************************************************)
(* Bounds                                                                  *)
(***************************************************************************)
MaxPages == 3

(***************************************************************************)
(* Characters and the Python string operations the code uses               *)
(***************************************************************************)
LowerLetters == <<"a", "b", "c", "d", "e", "f", "g", "h", "i", "j", "k", "l", "m",
                  "n", "o", "p", "q", "r", "s", "t", "u", "v", "w", "x", "y", "z",
                  "á", "ã", "ç", "ê", "ó", "ú">>
UpperLetters == <<"A", "B", "C", "D", "E", "F", "G", "H", "I", "J", "K", "L", "M",
                  "N", "O", "P", "Q", "R", "S", "T", "U", "V", "W", "X", "Y", "Z",
                  "Á", "Ã", "Ç", "Ê", "Ó", "Ú">>
AsciiDigits == {"0", "1", "2", "3", "4", "5", "6", "7", "8", "9"}
\* str.isdigit() also accepts digits int() rejects, such as superscript two
UnicodeDigits == AsciiDigits \cup {"²"}
Whitespace == {" ", "\n", "\t"}
AsciiAlnum == AsciiDigits \cup {LowerLetters[k] : k \in 1..26} \cup {UpperLetters[k] : k \in 1..26}

\* str.upper() and str.lower(), character by character
upper_map ==
    [c \in {LowerLetters[k] : k \in 1..Len(LowerLetters)} |->
        UpperLetters[CHOOSE k \in 1..Len(LowerLetters) : LowerLetters[k] = c]]
lower_map ==
    [c \in {UpperLetters[k] : k \in 1..Len(UpperLetters)} |->
        LowerLetters[CHOOSE k \in 1..Len(UpperLetters) : UpperLetters[k] = c]]

upper_char(c) == IF c \in DOMAIN upper_map THEN upper_map[c] ELSE c

lower_char(c) == IF c \in DOMAIN lower_map THEN lower_map[c] ELSE c

upper(s) == [k \in 1..Len(s) |-> upper_char(s[k])]
lower(s) == [k \in 1..Len(s) |-> lower_char(s[k])]

\* s[k:] with k a 0-based Python index
slice_from(s, k) == SubSeq(s, k + 1, Len(s))

starts_at(s, p, k) ==
    /\ k + Len(p) <= Len(s)
    /\ \A j \in 1..Len(p) : s[k + j] = p[j]

startswith(s, p) == starts_at(s, p, 0)

\* s.index(p): the least 0-based position where p occurs; -1 when it does not
index(s, p) ==
    LET hits == {k \in 0..(Len(s) - Len(p)) : starts_at(s, p, k)}
    IN IF hits = {} THEN -1 ELSE CHOOSE k \in hits : \A j \in hits : k <= j

contains(s, p) == \E k \in 0..(Len(s) - Len(p)) : starts_at(s, p, k)

\* s.strip(): from the first to the last character that is not whitespace
strip(s) ==
    IF \A k \in 1..Len(s) : s[k] \in Whitespace THEN <<>>
    ELSE SubSeq(s,
                CHOOSE k \in 1..Len(s) :
                    s[k] \notin Whitespace /\ \A j \in 1..(k - 1) : s[j] \in Whitespace,
                CHOOSE k \in 1..Len(s) :
                    s[k] \notin Whitespace /\ \A j \in (k + 1)..Len(s) : s[j] \in Whitespace)

RECURSIVE split_on(_, _)
\* s.split(sep) for a one-character separator: the pieces between separators,
\* empty pieces included (the recursion is one level per piece)
split_on(s, sep) ==
    IF \A k \in 1..Len(s) : s[k] # sep THEN <<s>>
    ELSE LET cut == CHOOSE k \in 1..Len(s) : s[k] = sep /\ \A j \in 1..(k - 1) : s[j] # sep
         IN <<SubSeq(s, 1, cut - 1)>> \o split_on(SubSeq(s, cut + 1, Len(s)), sep)

split_lines(s) == split_on(s, "\n")

RECURSIVE split(_)
\* s.split(): the maximal runs of non-whitespace characters
split(s) ==
    IF \A k \in 1..Len(s) : s[k] \in Whitespace THEN <<>>
    ELSE LET first == CHOOSE k \in 1..Len(s) :
                          s[k] \notin Whitespace /\ \A j \in 1..(k - 1) : s[j] \in Whitespace
             last == CHOOSE e \in first..Len(s) :
                         /\ \A j \in first..e : s[j] \notin Whitespace
                         /\ (e = Len(s) \/ s[e + 1] \in Whitespace)
         IN <<SubSeq(s, first, last)>> \o split(SubSeq(s, last + 1, Len(s)))

RECURSIVE join(_, _)
join(sep, parts) ==
    IF parts = <<>> THEN <<>>
    ELSE IF Len(parts) = 1 THEN parts[1]
    ELSE parts[1] \o sep \o join(sep, Tail(parts))

isdigit(s) == s # <<>> /\ \A k \in 1..Len(s) : s[k] \in UnicodeDigits

digit_value(c) ==
    CASE c = "0" -> 0 [] c = "1" -> 1 [] c = "2" -> 2 [] c = "3" -> 3 [] c = "4" -> 4
      [] c = "5" -> 5 [] c = "6" -> 6 [] c = "7" -> 7 [] c = "8" -> 8 [] c = "9" -> 9
      [] OTHER -> -1

\* int(s) raises ValueError on a character that is not a decimal digit
int_raises(s) == \E k \in 1..Len(s) : digit_value(s[k]) = -1

RECURSIVE int_of(_)
int_of(s) == IF s = <<>> THEN 0 ELSE 10 * int_of(SubSeq(s, 1, Len(s) - 1)) + digit_value(s[Len(s)])

only_digits(s) == SelectSeq(s, LAMBDA c : c \in UnicodeDigits)

(***************************************************************************)
(* Literals of the source                                                  *)
(***************************************************************************)
sDANFE == <<"D", "A", "N", "F", "E">>
sCHAVE_DE_ACESSO == <<"C", "H", "A", "V", "E", " ", "D", "E", " ", "A", "C", "E", "S", "S", "O">>
sCHAVE_DE_ACESSO_C == <<"C", "H", "A", "V", "E", " ", "D", "E", " ", "A", "C", "E", "S", "S", "O", ":">>
sCHAVE_ACESSO == <<"C", "H", "A", "V", "E", " ", "A", "C", "E", "S", "S", "O">>
sITEM == <<"I", "T", "E", "M">>
sCODIGO == <<"C", "Ó", "D", "I", "G", "O">>
sDESCRICAO == <<"D", "E", "S", "C", "R", "I", "Ç", "Ã", "O">>
sCONTEUDO == <<"C", "O", "N", "T", "E", "Ú", "D", "O">>
sATRIBUTOS == <<"A", "T", "R", "I", "B", "U", "T", "O", "S">>
sQUANT == <<"Q", "U", "A", "N", "T", ".">>
sOne == <<"1">>
sNL == <<"\n">>
sSP == <<" ">>

chave_patterns == <<sCHAVE_DE_ACESSO, sCHAVE_DE_ACESSO_C, sCHAVE_ACESSO>>
item_patterns == <<sITEM, sCODIGO, sDESCRICAO>>
skip_headers == {sCONTEUDO, sATRIBUTOS, sQUANT, sDESCRICAO, sCODIGO}
\* mutant: a 30-digit key is accepted
MinKeyDigits_is30 == 30 + 0
MinKeyDigits == 40

(***************************************************************************)
(* Input pages.  A document is a sequence of page names; PagePool gives    *)
(* what PyMuPDF returns for the page: get_text("text"), get_images() being *)
(* non-empty, get_text("blocks") as <<x0, y0, x1, y1, text>>, and rect.    *)
(***************************************************************************)
Digits10 == <<"1", "2", "3", "4", "5", "6", "7", "8", "9", "0">>
\* the 44-digit access key of scenario A: 1234567890 repeated
key44 == [k \in 1..44 |-> Digits10[((k - 1) % 10) + 1]]
key30 == SubSeq(key44, 1, 30)
sSeq01 == <<"0", "1">>
sQty3 == <<"3">>
sSup2 == <<"²">>
sABC12345 == <<"A", "B", "C", "1", "2", "3", "4", "5">>
sBlueShoe == <<"B", "l", "u", "e", " ", "S", "h", "o", "e", " ", "S", "i", "z", "e", " ", "4", "2">>
sCodeDesc == sABC12345 \o sSP \o sBlueShoe
sExtra == <<"E", "x", "t", "r", "a">>
sLabel == <<"L", "a", "b", "e", "l", " ", "7">>
sDanfeMixed == <<"D", "a", "n", "f", "e">>
sImageBlock == <<"<", "i", "m", "a", "g", "e", ":", " ", "D", "e", "v", "i", "c", "e", "R", "G", "B", ">">>

\* scenario A, page 1: ITEM / 01 / ABC12345 Blue Shoe Size 42 / QUANT. / 3
textScenarioA ==
    join(sNL, <<sDANFE, sCHAVE_DE_ACESSO \o sSP \o key44, sITEM, sSeq01, sCodeDesc, sQUANT, sQty3>>)
\* code and description on lines of their own, key on the line after the anchor
textCodeLines ==
    join(sNL, <<sDanfeMixed, sCHAVE_DE_ACESSO_C, key44, sCODIGO, sABC12345, sBlueShoe, sQUANT, sQty3>>)
\* 30 digits after the first anchor, 44 after the third; two code lines, and a
\* word between QUANT. and the number
textSecondAnchor ==
    join(sNL, <<sDANFE, sCHAVE_DE_ACESSO \o sSP \o key30, sCHAVE_ACESSO \o sSP \o key44,
                sDESCRICAO, sABC12345, sBlueShoe, sABC12345, sQUANT, sExtra, sQty3>>)
textShortKey ==
    join(sNL, <<sDANFE, sCHAVE_DE_ACESSO \o sSP \o key30, sITEM, sABC12345, sBlueShoe>>)
textNoItemAnchor ==
    join(sNL, <<sDANFE, sCHAVE_DE_ACESSO \o sSP \o key44, sABC12345, sBlueShoe>>)
textIntRaises ==
    join(sNL, <<sDANFE, sCHAVE_DE_ACESSO \o sSP \o key44, sITEM, sSup2, sABC12345>>)
textOverflow == join(sNL, <<sExtra, sBlueShoe>>)
textBody == <<"A", "l", "p", "h", "a", " ", "b", "e", "t", "a", " ", " ", "g", "a", "m", "m", "a", "\n",
              "d", "e", "l", "t", "a", " ", "e", "p", "s", "i", "l", "o", "n">>
textBodyJac == <<"B", "e", "t", "a", " ", "a", "l", "p", "h", "a", " ", "g", "a", "m", "m", "a", " ",
                 "d", "e", "l", "t", "a">>
textBodyPeso == <<"a", "l", "p", "h", "a", " ", "b", "e", "t", "a", " ", "g", "a", "m", "m", "a", " ",
                  "d", "e", "l", "t", "a", " ", "P", "e", "s", "o">>
textFrag == <<"x", "y", "z", " ", "1", "2">>
textFragWide == <<"u", "v", "w", " ", "3", "4">>
textNoise == <<"t", "i", "n", "y">>
textScattered == <<"o", "n", "e", " ", "t", "w", "o", " ", "t", "h", "r", "e", "e">>
textProdCode == <<"R", "e", "f", " ", "I", "2", "0", "a", "b", "c", "d", "e", "f", "1", "2">>
textProdCodeA == <<"R", "e", "f", " ", "A", "2", "0", "a", "b", "c", "d", "e", "f", "1", "2">>

PageW == 100
PageH == 200
Page(text, images, blocks) ==
    [text |-> text, images |-> images, blocks |-> blocks, W |-> PageW, H |-> PageH]
\* one block of text covering most of the page
FullBlock(text) == << <<10, 20, 90, 180, text>> >>
\* two blocks in the top 30% of the page, in vertical bands 0 and 1
TopBlocks(text) == << <<10, 0, 60, 20, text>>, <<10, 30, 60, 45, text>> >>
\* two blocks in the top 30% of the page, reaching bands 0, 1 and 2
TopBlocksWide(text) == << <<10, 0, 60, 20, text>>, <<10, 30, 60, 60, text>> >>
\* two blocks in the top 30% of the page, each below 0.03% of the page area
TinyBlocks(text) == << <<0, 0, 1, 1, text>>, <<5, 5, 7, 6, text>> >>
\* three thin blocks spread over the height of the page
SpreadBlocks(text) == << <<10, 10, 60, 20, text>>, <<10, 90, 60, 100, text>>, <<10, 170, 60, 180, text>> >>
ImageBlocks == << <<0, 0, 100, 200, sImageBlock>> >>

PagePool ==
    [ scenarioA    |-> Page(textScenarioA, FALSE, FullBlock(textScenarioA)),
      codeLines    |-> Page(textCodeLines, FALSE, FullBlock(textCodeLines)),
      secondAnchor |-> Page(textSecondAnchor, TRUE, FullBlock(textSecondAnchor)),
      shortKey     |-> Page(textShortKey, FALSE, FullBlock(textShortKey)),
      noItemAnchor |-> Page(textNoItemAnchor, FALSE, FullBlock(textNoItemAnchor)),
      intRaises    |-> Page(textIntRaises, FALSE, FullBlock(textIntRaises)),
      overflow     |-> Page(textOverflow, FALSE, FullBlock(textOverflow)),
      label        |-> Page(sLabel, TRUE, FullBlock(sLabel) \o ImageBlocks),
      image        |-> Page(<<>>, TRUE, ImageBlocks),
      body         |-> Page(textBody, FALSE, FullBlock(textBody)),
      bodyJac      |-> Page(textBodyJac, FALSE, FullBlock(textBodyJac)),
      bodyPeso     |-> Page(textBodyPeso, FALSE, TopBlocks(textBodyPeso)),
      frag         |-> Page(textFrag, FALSE, TopBlocks(textFrag)),
      fragWide     |-> Page(textFragWide, FALSE, TopBlocksWide(textFragWide)),
      noise        |-> Page(textNoise, FALSE, TinyBlocks(textNoise)),
      scattered    |-> Page(textScattered, FALSE, SpreadBlocks(textScattered)),
      prodCode     |-> Page(textProdCode, FALSE, FullBlock(textProdCode)),
      prodCodeA    |-> Page(textProdCodeA, FALSE, FullBlock(textProdCodeA)) ]

\* doc.load_page(n), n 0-based
load_page(d, n) == PagePool[d[n + 1]]

ExtractPages == {"scenarioA", "codeLines", "secondAnchor", "shortKey", "noItemAnchor",
                 "intRaises", "overflow", "label", "image"}
PrecleanPages == {"image", "body", "bodyJac", "bodyPeso",
                  "frag", "fragWide", "noise", "scattered", "prodCode", "prodCodeA"}

DocsOver(names) == UNION {[1..n -> names] : n \in 0..MaxPages}

(***************************************************************************)
(* preclean_pdf_remove_overflow_by_blocks: the body of one loop iteration  *)
(***************************************************************************)
kDanfe == <<"d", "a", "n", "f", "e">>
kFimDoDanfe == <<"f", "i", "m", " ", "d", "o", " ", "d", "a", "n", "f", "e">>
kChaveDeAcesso == <<"c", "h", "a", "v", "e", " ", "d", "e", " ", "a", "c", "e", "s", "s", "o">>
kDestinatario == <<"d", "e", "s", "t", "i", "n", "a", "t", "á", "r", "i", "o">>
kRemetente == <<"r", "e", "m", "e", "t", "e", "n", "t", "e">>
kPedidoCriado == <<"p", "e", "d", "i", "d", "o", " ", "c", "r", "i", "a", "d", "o">>
kPieces == <<"p", "i", "e", "c", "e", "s">>
kPeso == <<"p", "e", "s", "o">>
kItem == <<"i", "t", "e", "m">>
kConteudo == <<"c", "o", "n", "t", "e", "ú", "d", "o">>
kAtributos == <<"a", "t", "r", "i", "b", "u", "t", "o", "s">>
kQuant == <<"q", "u", "a", "n", "t">>
kDocumentoAuxiliar == <<"d", "o", "c", "u", "m", "e", "n", "t", "o", " ", "a", "u", "x", "i", "l", "i", "a", "r">>

KEEP_HEADERS == {kDanfe, kFimDoDanfe, kChaveDeAcesso, kDestinatario, kRemetente, kPedidoCriado,
                 kPieces, kPeso, kItem, kConteudo, kAtributos, kQuant}

RECURSIVE collapse_ws(_)
\* re.sub(r"\s+", " ", s): every maximal run of whitespace becomes one space
\* (the recursion is one level per run)
collapse_ws(s) ==
    IF \A k \in 1..Len(s) : s[k] \notin Whitespace THEN s
    ELSE LET first == CHOOSE k \in 1..Len(s) :
                          s[k] \in Whitespace /\ \A j \in 1..(k - 1) : s[j] \notin Whitespace
             last == CHOOSE e \in first..Len(s) :
                         /\ \A j \in first..e : s[j] \in Whitespace
                         /\ (e = Len(s) \/ s[e + 1] \notin Whitespace)
         IN SubSeq(s, 1, first - 1) \o sSP \o collapse_ws(SubSeq(s, last + 1, Len(s)))

\* app.py:39-40
norm_text(s) == lower(strip(collapse_ws(s)))

\* app.py:61
has_keep_header(text_norm) == \E h \in KEEP_HEADERS : contains(text_norm, h)

V_BANDS == 8
SmallMaxBlocks == 3
\* mutant: a small fragment may touch one band only
SmallMaxBands_one == 2 - 1
SmallMaxBands == 2
\* mutant: a shorter length limit for product-code fragments
ProductMaxLen_ten == 10 + 0
ProductMaxLen == 600

\* app.py:71-79: the blocks with text whose area is at least 0.03% of the page area
\* (bw * bh < 0.0003 * total_area, in integers)
block_qualifies(b, W, H) ==
    LET bw == IF b[3] - b[1] > 0 THEN b[3] - b[1] ELSE 0
        bh == IF b[4] - b[2] > 0 THEN b[4] - b[2] ELSE 0
    IN /\ ~(Len(b) < 5)
       /\ strip(b[5]) # <<>>
       /\ ~(10000 * bw * bh < 3 * W * H)

qualifying_blocks(pg) == SelectSeq(pg.blocks, LAMBDA b : block_qualifies(b, pg.W, pg.H))

SetMax(S) == CHOOSE x \in S : \A y \in S : x >= y
SetMin(S) == CHOOSE x \in S : \A y \in S : x <= y

\* app.py:90-97: the vertical bands the blocks touch; int() of a non-negative ratio
v_occ_of(blocks, H) ==
    UNION { LET v0 == (b[2] * V_BANDS) \div H
                v1 == (b[4] * V_BANDS) \div H
                hi == IF v1 < V_BANDS - 1 THEN v1 ELSE V_BANDS - 1
            IN v0..hi : b \in {blocks[k] : k \in 1..Len(blocks)} }

\* mutant: only containment counts as similar, the Jaccard test is lost
similar_prev_of_containment(prev_text_norm, text_norm) ==
    /\ prev_text_norm # <<>>
    /\ text_norm # <<>>
    /\ (contains(prev_text_norm, text_norm) \/ contains(text_norm, prev_text_norm))

\* app.py:104-112: jacc >= 0.60 as 5 * |a & b| >= 3 * (|a | b| or 1)
similar_prev_of(prev_text_norm, text_norm) ==
    IF prev_text_norm = <<>> THEN FALSE
    ELSE IF text_norm # <<>> /\ (contains(prev_text_norm, text_norm) \/ contains(text_norm, prev_text_norm))
    THEN TRUE
    ELSE LET a == {split(prev_text_norm)[k] : k \in 1..Len(split(prev_text_norm))}
             b == {split(text_norm)[k] : k \in 1..Len(split(text_norm))}
             den == IF Cardinality(a \cup b) = 0 THEN 1 ELSE Cardinality(a \cup b)
         IN 5 * Cardinality(a \cap b) >= 3 * den

\* app.py:117: max_y <= 0.40 as 5 * max(y1) <= 2 * H
is_small_fragment_of(blocks, H) ==
    /\ Len(blocks) <= SmallMaxBlocks
    /\ 5 * SetMax({blocks[k][4] : k \in 1..Len(blocks)}) <= 2 * H
    /\ Cardinality(v_occ_of(blocks, H)) <= SmallMaxBands

\* app.py:126
has_main_structure_of(text_norm) ==
    contains(text_norm, kDanfe)
    /\ (contains(text_norm, kDestinatario) \/ contains(text_norm, kDocumentoAuxiliar))

RECURSIVE sum_areas(_)
sum_areas(blocks) ==
    IF blocks = <<>> THEN 0
    ELSE (blocks[1][3] - blocks[1][1]) * (blocks[1][4] - blocks[1][2]) + sum_areas(Tail(blocks))

\* app.py:128-144: density < 0.35 as 20 * area < 7 * page, y_spread > 0.70 as
\* 10 * spread > 7 * H, density < 0.20 as 5 * area < page, y_spread > 0.60 as 5 * spread > 3 * H
is_scattered_fragment_of(text_norm, blocks, W, H) ==
    IF ~has_main_structure_of(text_norm) /\ Len(blocks) >= 3
    THEN LET total_block_area == sum_areas(blocks)
             page_area == W * H
             y_positions == {blocks[k][2] : k \in 1..Len(blocks)} \cup {blocks[k][4] : k \in 1..Len(blocks)}
             spread == SetMax(y_positions) - SetMin(y_positions)
         IN \/ (20 * total_block_area < 7 * page_area /\ 10 * spread > 7 * H)
            \/ (5 * total_block_area < page_area /\ 5 * spread > 3 * H)
    ELSE FALSE

LowerAlnum == AsciiDigits \cup {LowerLetters[k] : k \in 1..26}

\* app.py:149: re.search(r'i\d{2}[a-z0-9]{6,10}', text_norm)
has_product_codes_of(text_norm) ==
    \E k \in 1..(Len(text_norm) - 8) :
        /\ text_norm[k] = "i"
        /\ text_norm[k + 1] \in AsciiDigits /\ text_norm[k + 2] \in AsciiDigits
        /\ \A j \in 3..8 : text_norm[k + j] \in LowerAlnum

\* app.py:150
is_product_fragment_of(text_norm) ==
    has_product_codes_of(text_norm) /\ ~has_main_structure_of(text_norm) /\ Len(text_norm) < ProductMaxLen

\* app.py:65-157: the decision on a page without header keyword
drop_decision(pg, prev_text_norm) ==
    LET text_norm == norm_text(pg.text)
        blocks == qualifying_blocks(pg)
        reasons ==
            (IF is_small_fragment_of(blocks, pg.H) THEN {"SmallFragment"} ELSE {})
            \cup (IF similar_prev_of(prev_text_norm, text_norm) THEN {"Continuation"} ELSE {})
            \cup (IF is_scattered_fragment_of(text_norm, blocks, pg.W, pg.H) THEN {"ScatteredFragment"} ELSE {})
            \cup (IF is_product_fragment_of(text_norm) THEN {"ProductFragment"} ELSE {})
    IN IF blocks = <<>> THEN [drop |-> FALSE, reasons |-> {}, text_norm |-> text_norm]
       ELSE [drop |-> reasons # {}, reasons |-> reasons, text_norm |-> text_norm]

\* mutant: the header keywords do not protect a page
classify_page_no_headers(pg, prev_text_norm) == drop_decision(pg, prev_text_norm)

\* app.py:57-168: the decision on one page: whether it is dropped, the reasons logged
\* and the text remembered for the next page
classify_page(pg, prev_text_norm) ==
    IF has_keep_header(norm_text(pg.text))
    THEN [drop |-> FALSE, reasons |-> {}, text_norm |-> norm_text(pg.text)]
    ELSE drop_decision(pg, prev_text_norm)

\* the values prev_text_norm takes: '' (app.py:54) and the normalized text of a
\* page (app.py:62, 82, 168)
PrevTextNorms == {<<>>} \cup {norm_text(PagePool[p].text) : p \in DOMAIN PagePool}

\* classify_page for every page of the pool and every value of prev_text_norm,
\* computed once
classify_page_by_pages ==
    [p \in DOMAIN PagePool |->
        [t \in PrevTextNorms |-> classify_page(PagePool[p], t)]]

classify_page_at(d, i, prev_text_norm) == classify_page_by_pages[d[i + 1]][prev_text_norm]

(***************************************************************************)
(* extract_text_from_pdf: the body of one scan iteration                   *)
(***************************************************************************)
\* app.py:423-425: the digits of the first line after the anchor
chave_linha_digits(text, pattern) ==
    LET chave_acesso_index == index(text, pattern)
        chave_linha == split_lines(strip(slice_from(text, chave_acesso_index + Len(pattern))))[1]
    IN only_digits(chave_linha)

RECURSIVE find_chave(_, _)
\* app.py:417-429: the first anchor whose line has at least 40 digits; <<>> is None
find_chave(text, k) ==
    IF k > Len(chave_patterns) THEN <<>>
    ELSE IF contains(text, chave_patterns[k])
              /\ Len(chave_linha_digits(text, chave_patterns[k])) >= MinKeyDigits
         THEN chave_linha_digits(text, chave_patterns[k])
         ELSE find_chave(text, k + 1)

RECURSIVE find_item_index(_, _)
\* app.py:439-445: the position of the first anchor, in the order of the list, that occurs
find_item_index(text, k) ==
    IF k > Len(item_patterns) THEN -1
    ELSE IF contains(text, item_patterns[k]) THEN index(text, item_patterns[k])
    ELSE find_item_index(text, k + 1)

\* app.py:452-462: the item section, with the text of an image-free non-DANFE next page
texto_completo_of(d, n, item_index) ==
    LET text == load_page(d, n).text
        base == slice_from(text, item_index)
        proxima_pagina == n + 1
    IN IF proxima_pagina < Len(d)
          /\ ~load_page(d, proxima_pagina).images
          /\ load_page(d, proxima_pagina).text # <<>>
          /\ ~contains(upper(load_page(d, proxima_pagina).text), sDANFE)
       THEN base \o sNL \o load_page(d, proxima_pagina).text
       ELSE base

\* re.match(r'^[A-Za-z0-9]{5,}', s)
match_code(s) == Len(s) >= 5 /\ \A k \in 1..5 : s[k] \in AsciiAlnum

\* app.py:514-519 and 529-534: the buffered lines become one item when valid
flush_item(item_atual, quantidade_atual, itens) ==
    IF Len(item_atual) >= 2
    THEN LET codigo == item_atual[1]
             conteudo == join(sSP, Tail(item_atual))
         IN IF codigo # <<>> /\ conteudo # <<>> /\ Len(codigo) > 3
            THEN Append(itens, <<codigo, conteudo, quantidade_atual>>)
            ELSE itens
    ELSE itens

\* mutant: a code line starts a new item whatever the buffer holds
code_starts_item_always(linha_limpa, item_atual) == match_code(linha_limpa)
\* app.py:508: a code line starts a new item only while the buffer is empty
code_starts_item(linha_limpa, item_atual) == match_code(linha_limpa) /\ item_atual = <<>>

\* app.py:476-526: one iteration of the line loop; i is the enumerate index over
\* linhas[1:], so the current line is linhas[i+1] and linhas[i] the line before it
parse_line(linhas, i, st) ==
    LET linha_limpa == strip(linhas[i + 2])
        after_quant == i > 0 /\ contains(upper(linhas[i + 1]), sQUANT)
    IN IF linha_limpa = <<>> \/ linha_limpa \in skip_headers THEN st
       ELSE IF after_quant /\ isdigit(linha_limpa)
       THEN [st EXCEPT !.quantidade_atual = linha_limpa]
       ELSE
         LET quantidade_1 ==
                 IF after_quant /\ i + 1 < Len(linhas) /\ isdigit(strip(linhas[i + 2]))
                 THEN strip(linhas[i + 2])
                 ELSE st.quantidade_atual
             small_number == st.item_atual = <<>> /\ isdigit(linha_limpa) /\ Len(linha_limpa) <= 2
         IN IF small_number /\ int_raises(linha_limpa)
            THEN [st EXCEPT !.raised = TRUE]
            ELSE
              LET is_new_item ==
                      IF small_number /\ int_of(linha_limpa) <= 50 THEN TRUE
                      ELSE code_starts_item(linha_limpa, st.item_atual)
              IN IF is_new_item
                 THEN [st EXCEPT
                         !.itens = flush_item(st.item_atual, quantidade_1, st.itens),
                         !.item_atual = <<linha_limpa>>,
                         !.quantidade_atual = sOne]
                 ELSE [st EXCEPT
                         !.item_atual = Append(st.item_atual, linha_limpa),
                         !.quantidade_atual = quantidade_1]

RECURSIVE parse_lines(_, _, _)
parse_lines(linhas, i, st) ==
    IF i > Len(linhas) - 2 \/ st.raised THEN st
    ELSE parse_lines(linhas, i + 1, parse_line(linhas, i, st))

\* app.py:465-536: the items of an item section; raised when int() raised
parse_itens(texto_completo) ==
    LET linhas == split_lines(strip(texto_completo))
        st == parse_lines(linhas, 0,
                 [item_atual |-> <<>>, quantidade_atual |-> sOne, itens |-> <<>>, raised |-> FALSE])
    IN [raised |-> st.raised,
        itens |-> IF st.raised THEN <<>>
                  ELSE flush_item(st.item_atual, st.quantidade_atual, st.itens)]

is_danfe(text) == contains(upper(text), sDANFE) \/ startswith(text, sDANFE)

\* the increments of page_num, app.py:412, 433, 449 and 550
\* mutant: a skipped page does not advance the scan
StepOnSkip_zero == 1 - 1
StepOnSkip == 1
\* mutant: the stride after a parsed page is the stride of a skipped one
StepOnParsed_asSkip == StepOnSkip
StepOnParsed == 2

\* app.py:404-550: outcome of the page at page_num (0-based), the record it appends
\* and the increment of page_num
extract_page(d, n) ==
    LET text == load_page(d, n).text
        chave_acesso == find_chave(text, 1)
        item_index == find_item_index(text, 1)
        parsed == parse_itens(texto_completo_of(d, n, item_index))
    IN IF ~is_danfe(text)
       THEN [outcome |-> "not_danfe", records |-> <<>>, step |-> StepOnSkip]
       ELSE IF chave_acesso = <<>>
       THEN [outcome |-> "no_key", records |-> <<>>, step |-> StepOnSkip]
       ELSE IF item_index = -1
       THEN [outcome |-> "no_item_section", records |-> <<>>, step |-> StepOnSkip]
       ELSE IF parsed.raised
       THEN [outcome |-> "exception", records |-> <<>>, step |-> StepOnParsed]
       ELSE IF parsed.itens = <<>>
       THEN [outcome |-> "no_items", records |-> <<>>, step |-> StepOnParsed]
       ELSE [outcome |-> "record", records |-> << <<chave_acesso, parsed.itens>> >>,
             step |-> StepOnParsed]

\* extract_page for every page of the pool followed by NoNextPage or by a page of
\* the pool (app.py:452-462 reads no page further away), computed once
NoNextPage == "none"

extract_page_by_pages ==
    [p \in DOMAIN PagePool |->
        [q \in DOMAIN PagePool \cup {NoNextPage} |->
            extract_page(IF q = NoNextPage THEN <<p>> ELSE <<p, q>>, 0)]]

extract_page_at(d, n) ==
    extract_page_by_pages[d[n + 1]][IF n + 1 < Len(d) THEN d[n + 2] ELSE NoNextPage]

(***************************************************************************)
(* create_individual_page_pdf: description normalization and wrapping      *)
(***************************************************************************)
\* the split-word corrections of app.py:627-643, in dictionary order: the words of
\* the pattern \bw1\s+w2...\b and the replacement
correcoes ==
    <<
       << << <<"U">>, <<"n", "i", "s", "s", "e", "x">> >>, <<"U", "n", "i", "s", "s", "e", "x">> >>,
       << << <<"S", "k", "a", "t">>, <<"i", "s", "t", "a">> >>, <<"S", "k", "a", "t", "i", "s", "t", "a">> >>,
       << << <<"M", "a">>, <<"s", "c", "u", "l", "i", "n", "o">> >>, <<"M", "a", "s", "c", "u", "l", "i", "n", "o">> >>,
       << << <<"F", "e">>, <<"m", "i", "n", "i", "n", "o">> >>, <<"F", "e", "m", "i", "n", "i", "n", "o">> >>,
       << << <<"P", "r", "e">>, <<"m", "i", "u", "m">> >>, <<"P", "r", "e", "m", "i", "u", "m">> >>,
       << << <<"C", "a", "s">>, <<"u", "a", "l">> >>, <<"C", "a", "s", "u", "a", "l">> >>,
       << << <<"C", "a", "m">>, <<"p", "u", "s">> >>, <<"C", "a", "m", "p", "u", "s">> >>,
       << << <<"T", "ê">>, <<"n", "i", "s">> >>, <<"T", "ê", "n", "i", "s">> >>,
       << << <<"S", "k", "a">>, <<"t", "e">> >>, <<"S", "k", "a", "t", "e">> >>,
       << << <<"C", "o", "n">>, <<"f", "o", "r", "t", "á", "v", "e", "l">> >>,
          <<"C", "o", "n", "f", "o", "r", "t", "á", "v", "e", "l">> >>,
       << << <<"L", "a", "n">>, <<"ç", "a", "m", "e", "n", "t", "o">> >>,
          <<"L", "a", "n", "ç", "a", "m", "e", "n", "t", "o">> >>,
       << << <<"D", "i", "a">>, <<"a">>, <<"D", "i", "a">> >>, <<"D", "i", "a", " ", "a", " ", "D", "i", "a">> >>,
       << << <<"S", "u">>, <<"p", "e", "r">> >>, <<"S", "u", "p", "e", "r">> >>,
       << << <<"L", "i">>, <<"n", "h", "a">> >>, <<"L", "i", "n", "h", "a">> >>,
       << << <<"M", "o">>, <<"r", "e", "t", "t", "o">> >>, <<"M", "o", "r", "e", "t", "t", "o">> >>
    >>

Glyphs == {"■", "□", "▪", "▫"}
\* \w of the re module: letters, digits and the underscore
WordChars == {LowerLetters[k] : k \in 1..Len(LowerLetters)}
             \cup {UpperLetters[k] : k \in 1..Len(UpperLetters)} \cup UnicodeDigits \cup {"_"}

\* a word of a pattern matches s at the 1-based position pos, ignoring case
word_at(s, pos, w) ==
    /\ pos + Len(w) - 1 <= Len(s)
    /\ \A j \in 1..Len(w) : lower_char(s[pos + j - 1]) = lower_char(w[j])

RECURSIVE match_end(_, _, _, _)
\* the last position of a match of words[k..] separated by \s+ and closed by \b,
\* started at pos; 0 when there is none
match_end(s, pos, words, k) ==
    LET e == pos + Len(words[k]) - 1
    IN IF ~word_at(s, pos, words[k]) THEN 0
       ELSE IF k = Len(words)
       THEN (IF e = Len(s) \/ s[e + 1] \notin WordChars THEN e ELSE 0)
       ELSE IF e + 1 > Len(s) \/ s[e + 1] \notin Whitespace THEN 0
       ELSE IF \A j \in (e + 1)..Len(s) : s[j] \in Whitespace THEN 0
       ELSE match_end(s,
                      CHOOSE q \in (e + 2)..Len(s) :
                          s[q] \notin Whitespace /\ \A j \in (e + 1)..(q - 1) : s[j] \in Whitespace,
                      words, k + 1)

\* \b before pos, then the pattern
match_at(s, pos, words) ==
    IF pos = 1 \/ s[pos - 1] \notin WordChars THEN match_end(s, pos, words, 1) ELSE 0

RECURSIVE re_sub_from(_, _, _, _)
\* re.sub(pattern, repl, s, flags=re.IGNORECASE) for the text from position start on:
\* leftmost matches, not overlapping (the recursion is one level per match)
re_sub_from(s, start, words, repl) ==
    LET first == lower_char(words[1][1])
        hits == {q \in start..Len(s) : lower_char(s[q]) = first /\ match_at(s, q, words) # 0}
    IN IF hits = {} THEN SubSeq(s, start, Len(s))
       ELSE LET q == SetMin(hits)
            IN SubSeq(s, start, q - 1) \o repl \o re_sub_from(s, match_at(s, q, words) + 1, words, repl)

RECURSIVE apply_correcoes(_, _)
apply_correcoes(texto, k) ==
    IF k > Len(correcoes) THEN texto
    ELSE apply_correcoes(re_sub_from(texto, 1, correcoes[k][1], correcoes[k][2]), k + 1)

\* app.py:625-649
corrigir_palavras_cortadas(texto) == apply_correcoes(texto, 1)

remove_glyphs(s) == SelectSeq(s, LAMBDA c : c \notin Glyphs)

\* app.py:652-654: conteudo_limpo
normalize_description(conteudo) ==
    corrigir_palavras_cortadas(remove_glyphs(collapse_ws(strip(conteudo))))

largura_maxima == 112
sCodigoLabel == <<"C", "ó", "d", "i", "g", "o", ":", " ">>

RECURSIVE quebrar_palavras(_, _, _)
\* app.py:665-680: the loop over palavras; linha_atual is the line being filled
quebrar_palavras(palavras, linha_atual, largura) ==
    IF palavras = <<>> THEN (IF linha_atual # <<>> THEN <<linha_atual>> ELSE <<>>)
    ELSE LET palavra == Head(palavras)
         IN IF Len(linha_atual) + 1 + Len(palavra) <= largura
            THEN quebrar_palavras(Tail(palavras),
                                  IF linha_atual # <<>> THEN linha_atual \o sSP \o palavra ELSE palavra,
                                  largura)
            ELSE IF linha_atual # <<>>
            THEN <<linha_atual>> \o quebrar_palavras(Tail(palavras), palavra, largura)
            ELSE <<SubSeq(palavra, 1, largura)>>
                 \o quebrar_palavras(Tail(palavras), SubSeq(palavra, largura + 1, Len(palavra)), largura)

\* app.py:660-686
quebrar_texto_inteligente(texto, largura) == join(sNL, quebrar_palavras(split(texto), <<>>, largura))

(***************************************************************************)
(* create_individual_page_pdf: the body of one loop iteration              *)
(***************************************************************************)
MaxRowsSamePage == 4

\* app.py:618-696: one table row per item that has three fields, a code and a description
table_row_of(item) ==
    IF Len(item) >= 3 /\ item[1] # <<>> /\ item[2] # <<>>
    THEN << <<quebrar_texto_inteligente(sCodigoLabel \o item[1] \o sNL \o normalize_description(item[2]),
                                        largura_maxima),
              item[3]>> >>
    ELSE <<>>

RECURSIVE table_data_of(_)
table_data_of(itens) ==
    IF itens = <<>> THEN <<>> ELSE table_row_of(Head(itens)) \o table_data_of(Tail(itens))

\* app.py:740-743: a page with an image that is not itself a full invoice page
is_artwork(pg) ==
    /\ pg.images
    /\ ~(contains(upper(pg.text), sDANFE) /\ contains(upper(pg.text), sCHAVE_DE_ACESSO))

\* app.py:733-746: the first artwork page among 2i, 2i+1 and, when in range, 2i+2;
\* -1 when there is none
pagina_com_imagem_of(d, i) ==
    LET paginas_para_buscar ==
            IF i * 2 + 2 < Len(d) THEN <<i * 2, i * 2 + 1, i * 2 + 2>> ELSE <<i * 2, i * 2 + 1>>
        found == {k \in 1..Len(paginas_para_buscar) :
                     /\ paginas_para_buscar[k] < Len(d)
                     /\ is_artwork(load_page(d, paginas_para_buscar[k]))}
    IN IF found = {} THEN -1 ELSE paginas_para_buscar[SetMin(found)]

\* what is drawn on a canvas page: <<kind, row index, detail>>
Mark(kind, i, detail) == <<kind, i, detail>>

\* mutant: a record whose table failed is counted as well
counted_for_table_error(outcome) == IF outcome \in {"generated", "table_error"} THEN 1 ELSE 0
\* the generated-page counter moves only for a record that reached app.py:802
counted_for(outcome) == IF outcome = "generated" THEN 1 ELSE 0

\* app.py:579-807: one record, table_data being the rows built at app.py:615-696
\* from the items of the record.  c is the canvas [pages, page]: the pages committed
\* by showPage and the marks on the page being drawn.  f says which library calls
\* raise: f.barcode (code128 / drawOn), f.image (get_pixmap / Image / drawImage),
\* f.table (wrapOn / drawOn).
compose_row(row, table_data, i, d, paginas_geradas, c, f) ==
    LET chave_acesso == row[1]
        itens == row[2]
        skip(outcome, canvas, image_error) ==
            [outcome |-> outcome, canvas |-> canvas, image_error |-> image_error,
             counted |-> counted_for(outcome), committed |-> Len(canvas.pages) - Len(c.pages)]
        c1 == [c EXCEPT !.page = @ \cup {Mark("barcode", i, 0), Mark("key", i, 0)}]
        pagina_com_imagem == pagina_com_imagem_of(d, i)
        image_error == pagina_com_imagem # -1 /\ f.image
        c2 == IF pagina_com_imagem # -1 /\ ~f.image
              THEN [c1 EXCEPT !.page = @ \cup {Mark("image", i, pagina_com_imagem)}]
              ELSE c1
        \* app.py:773-774: more than 4 rows: showPage before the table
        c3 == IF Len(table_data) > MaxRowsSamePage
              THEN [pages |-> Append(c2.pages, c2.page), page |-> {}]
              ELSE c2
        \* app.py:777-802: table, label P<n>, showPage
        c4 == [pages |-> Append(c3.pages,
                                c3.page \cup {Mark("table", i, Len(table_data)),
                                              Mark("label", i, paginas_geradas + 1)}),
               page |-> {}]
    IN IF chave_acesso = <<>> \/ itens = <<>> THEN skip("invalid", c, FALSE)
       ELSE IF Len(chave_acesso) < MinKeyDigits THEN skip("short_key", c, FALSE)
       ELSE IF f.barcode THEN skip("barcode_error", c, FALSE)
       ELSE IF table_data = <<>> THEN skip("no_valid_items", c1, FALSE)
       ELSE IF f.table THEN skip("table_error", c3, image_error)
       ELSE skip("generated", c4, image_error)

(***************************************************************************)
(* State                                                                   *)
(***************************************************************************)
VARIABLES
    pc,              \* the statement the program is at
    doc,             \* pages of the file the running stage has opened with fitz.open
    open_docs,       \* fitz documents opened and not yet closed
    page_num,        \* extract_text_from_pdf: scan index (0-based)
    extracted_data,  \* extract_text_from_pdf: records appended so far
    last_page,       \* extract_text_from_pdf: index examined by the last iteration
    last_outcome,    \* extract_text_from_pdf: what the last iteration logged
    pre_i,           \* preclean: loop index i (0-based)
    to_drop,         \* preclean: page indices marked for removal
    prev_text_norm,  \* preclean: normalized text of the page before the current one
    drop_reasons,    \* preclean: reason tags logged for each dropped page
    cleaned,         \* preclean: pages of the *_precleaned file it saved
    cleaned_pdf,     \* preclean: the path it returned ("input" or "precleaned")
    data,            \* create: the records it was called with
    row_i,           \* create: loop index i (0-based)
    paginas_geradas, \* create: generated-page counter
    canvas,          \* create: reportlab canvas, [pages, page]
    row_log,         \* create: what was logged for each record
    pdf_gerado,      \* create: its return value ("none" before it returns)
    output_pdf,      \* create: the pages c.save() wrote
    request,         \* processar_pdf: the kind of request
    input_valid,     \* processar_pdf: whether the upload is a PDF fitz can open
    response,        \* processar_pdf: the response returned
    files,           \* temporary files on disk: "input", "output", "precleaned"
    temp_files,      \* the paths in the global list temp_files
    norm_in,         \* a description to normalize
    norm_out,        \* the results of normalizing it once, twice, ...
    wrap_in,         \* quebrar_texto_inteligente: the text it is called with
    wrap_out         \* quebrar_texto_inteligente: the text it returned

extVars == <<page_num, extracted_data, last_page, last_outcome>>
preVars == <<pre_i, to_drop, prev_text_norm, drop_reasons, cleaned, cleaned_pdf>>
genVars == <<data, row_i, paginas_geradas, canvas, row_log, pdf_gerado, output_pdf>>
reqVars == <<request, input_valid, response, files, temp_files>>
normVars == <<norm_in, norm_out, wrap_in, wrap_out>>
vars == <<pc, doc, open_docs, page_num, extracted_data, last_page, last_outcome,
          pre_i, to_drop, prev_text_norm, drop_reasons, cleaned, cleaned_pdf,
          data, row_i, paginas_geradas, canvas, row_log, pdf_gerado, output_pdf,
          request, input_valid, response, files, temp_files,
          norm_in, norm_out, wrap_in, wrap_out>>

(***************************************************************************)
(* preclean_pdf_remove_overflow_by_blocks                                  *)
(***************************************************************************)
ExtIdle ==
    /\ page_num = 0
    /\ extracted_data = <<>>
    /\ last_page = -1
    /\ last_outcome = "none"

EmptyCanvas == [pages |-> <<>>, page |-> {}]

GenIdle ==
    /\ data = <<>>
    /\ row_i = 0
    /\ paginas_geradas = 0
    /\ canvas = EmptyCanvas
    /\ row_log = <<>>
    /\ pdf_gerado = "none"
    /\ output_pdf = <<>>

ReqIdle ==
    /\ request = "none"
    /\ input_valid = TRUE
    /\ response = "none"
    /\ files = {}
    /\ temp_files = {}

NormIdle ==
    /\ norm_in = <<>>
    /\ norm_out = <<>>
    /\ wrap_in = <<>>
    /\ wrap_out = <<>>

PreIdle ==
    /\ pre_i = 0
    /\ to_drop = {}
    /\ prev_text_norm = <<>>
    /\ drop_reasons = <<>>
    /\ cleaned = <<>>
    /\ cleaned_pdf = "none"

\* app.py:48-54: an empty document is closed and the input path returned
PrecleanBegin ==
    /\ pc = "preclean_begin"
    /\ pre_i' = 0
    /\ to_drop' = {}
    /\ prev_text_norm' = <<>>
    /\ drop_reasons' = <<>>
    /\ cleaned' = <<>>
    /\ IF ~input_valid
       THEN \* fitz.open raises on a file that is not a PDF
            /\ open_docs' = open_docs
            /\ cleaned_pdf' = "none"
            /\ pc' = "raised"
       ELSE IF Len(doc) = 0
       THEN /\ open_docs' = open_docs
            /\ cleaned_pdf' = "input"
            /\ pc' = "preclean_returned"
       ELSE /\ open_docs' = open_docs \cup {"preclean.doc"}
            /\ cleaned_pdf' = "none"
            /\ pc' = "preclean_loop"
    /\ UNCHANGED <<doc, extVars, genVars, reqVars, normVars>>

\* app.py:56-168: one iteration of the for loop
PrecleanPage ==
    /\ pc = "preclean_loop"
    /\ pre_i < Len(doc)
    /\ \E r \in {classify_page_at(doc, pre_i, prev_text_norm)} :
          /\ to_drop' = IF r.drop THEN to_drop \cup {pre_i} ELSE to_drop
          /\ drop_reasons' = Append(drop_reasons, r.reasons)
          /\ prev_text_norm' = r.text_norm
    /\ pre_i' = pre_i + 1
    /\ UNCHANGED <<pc, doc, open_docs, cleaned, cleaned_pdf, extVars, genVars, reqVars, normVars>>

\* app.py:175-179: the pages of doc whose index is not in to_drop, in order
kept_pages(d, drop) ==
    LET keep == {k \in 0..(Len(d) - 1) : k \notin drop}
        nth(n) == CHOOSE k \in keep : Cardinality({j \in keep : j < k}) = n - 1
    IN [n \in 1..Cardinality(keep) |-> d[nth(n) + 1]]

\* app.py:170-186: nothing dropped returns the input path; otherwise the kept
\* pages are saved as *_precleaned and both documents are closed.  Document.save
\* of PyMuPDF raises ValueError ("cannot save with zero pages") when every page was
\* dropped: the exception leaves app.py:183 with both documents open.
PrecleanReturn ==
    /\ pc = "preclean_loop"
    /\ ~(pre_i < Len(doc))
    /\ IF to_drop = {}
       THEN /\ cleaned' = cleaned
            /\ cleaned_pdf' = "input"
            /\ files' = files
            /\ open_docs' = open_docs \ {"preclean.doc"}
            /\ pc' = "preclean_returned"
       ELSE IF kept_pages(doc, to_drop) = <<>>
       THEN /\ cleaned' = cleaned
            /\ cleaned_pdf' = cleaned_pdf
            /\ files' = files
            /\ open_docs' = open_docs \cup {"preclean.cleaned"}
            /\ pc' = "raised"
       ELSE /\ cleaned' = kept_pages(doc, to_drop)
            /\ cleaned_pdf' = "precleaned"
            /\ files' = files \cup {"precleaned"}
            /\ open_docs' = open_docs \ {"preclean.doc"}
            /\ pc' = "preclean_returned"
    /\ UNCHANGED <<doc, pre_i, to_drop, prev_text_norm, drop_reasons, extVars, genVars,
                   request, input_valid, response, temp_files, normVars>>

InitPreclean ==
    /\ pc = "preclean_begin"
    /\ doc \in DocsOver(PrecleanPages)
    /\ open_docs = {}
    /\ PreIdle
    /\ ExtIdle
    /\ GenIdle
    /\ ReqIdle
    /\ NormIdle

NextPreclean == PrecleanBegin \/ PrecleanPage \/ PrecleanReturn

SpecPreclean == InitPreclean /\ [][NextPreclean]_vars

(***************************************************************************)
(* extract_text_from_pdf                                                   *)
(***************************************************************************)
\* app.py:395-401
ExtractBegin ==
    /\ pc = "extract_begin"
    /\ open_docs' = open_docs \cup {"extract.doc"}
    /\ page_num' = 0
    /\ extracted_data' = <<>>
    /\ last_page' = -1
    /\ last_outcome' = "none"
    /\ pc' = "extract_scan"
    /\ UNCHANGED <<doc, preVars, genVars, reqVars, normVars>>

\* app.py:403-550: one iteration of the while loop
ExtractScan ==
    /\ pc = "extract_scan"
    /\ page_num < Len(doc)
    /\ \E r \in {extract_page_at(doc, page_num)} :
          /\ extracted_data' = extracted_data \o r.records
          /\ page_num' = page_num + r.step
          /\ last_outcome' = r.outcome
    /\ last_page' = page_num
    /\ UNCHANGED <<pc, doc, open_docs, preVars, genVars, reqVars, normVars>>

\* app.py:552-560
ExtractReturn ==
    /\ pc = "extract_scan"
    /\ ~(page_num < Len(doc))
    /\ open_docs' = open_docs \ {"extract.doc"}
    /\ pc' = "extract_returned"
    /\ UNCHANGED <<doc, extVars, preVars, genVars, reqVars, normVars>>

InitExtract ==
    /\ pc = "extract_begin"
    /\ doc \in DocsOver(ExtractPages)
    /\ open_docs = {}
    /\ ExtIdle
    /\ PreIdle
    /\ GenIdle
    /\ ReqIdle
    /\ NormIdle

NextExtract == ExtractBegin \/ ExtractScan \/ ExtractReturn

SpecExtract == InitExtract /\ [][NextExtract]_vars

\* app.py:403: the while loop keeps iterating until its condition is false; nothing
\* in it waits, so a step that can be taken is taken
FairSpecExtract == SpecExtract /\ WF_vars(NextExtract)

(***************************************************************************)
(* create_individual_page_pdf                                              *)
(***************************************************************************)
MaxRecords == 2

sQty2 == <<"2">>
sSplitWords == <<"S", "u", " ", " ", "p", "e", "r", " ", "■", " ", "T", "ê", " ", "n", "i", "s">>
itemShoe == <<sABC12345, sBlueShoe, sQty3>>
itemSplit == <<sABC12345, sSplitWords, sQty2>>
recValid == <<key44, <<itemShoe>> >>
recShortKey == <<key30, <<itemShoe>> >>
recNoItems == <<key44, <<>> >>
\* an item without description and an item of two fields
recBadItems == <<key44, << <<sABC12345, <<>>, sOne>>, <<sABC12345, sBlueShoe>> >> >>
itemShort == <<sABC12345, <<"S", "h", "o", "e">>, sOne>>
recFive == <<key44, <<itemShort, itemSplit, itemShort, itemShort, itemShort>> >>
RecordPool == {recValid, recShortKey, recNoItems, recBadItems, recFive}
ComposePages == {"scenarioA", "image"}

Faults == [barcode : BOOLEAN, image : BOOLEAN, table : BOOLEAN]

\* app.py:562-576: no data returns False before anything is opened
ComposeBegin ==
    /\ pc = "create_begin"
    /\ row_i' = 0
    /\ paginas_geradas' = 0
    /\ canvas' = EmptyCanvas
    /\ row_log' = <<>>
    /\ output_pdf' = <<>>
    /\ IF data = <<>>
       THEN /\ pdf_gerado' = "False"
            /\ open_docs' = open_docs
            /\ pc' = "create_returned"
       ELSE /\ pdf_gerado' = "none"
            /\ open_docs' = open_docs \cup {"create.doc"}
            /\ pc' = "create_loop"
    /\ UNCHANGED <<doc, data, extVars, preVars, reqVars, normVars>>

\* app.py:578-807: one iteration of the for loop
ComposeRecord ==
    /\ pc = "create_loop"
    /\ row_i < Len(data)
    /\ \E table_data \in {table_data_of(data[row_i + 1][2])}, f \in Faults :
         LET r == compose_row(data[row_i + 1], table_data, row_i, doc, paginas_geradas, canvas, f)
         IN /\ canvas' = r.canvas
            /\ paginas_geradas' = paginas_geradas + r.counted
            /\ row_log' = Append(row_log, [outcome |-> r.outcome, image_error |-> r.image_error,
                                           counted |-> r.counted, committed |-> r.committed])
    /\ row_i' = row_i + 1
    /\ UNCHANGED <<pc, doc, open_docs, data, pdf_gerado, output_pdf, extVars, preVars, reqVars, normVars>>

\* Canvas.save() of reportlab: showPage for a page with pending marks, then write
saved_pages(c) == IF c.page # {} THEN Append(c.pages, c.page) ELSE c.pages

\* app.py:809-820: with pages, save the canvas, close doc and return True (c.save()
\* may raise); without pages return False, before doc.close()
ComposeReturn ==
    /\ pc = "create_loop"
    /\ ~(row_i < Len(data))
    /\ IF paginas_geradas > 0
       THEN \/ /\ output_pdf' = saved_pages(canvas)
               /\ open_docs' = open_docs \ {"create.doc"}
               /\ pdf_gerado' = "True"
               /\ pc' = "create_returned"
            \/ /\ pc' = "raised"
               /\ UNCHANGED <<output_pdf, open_docs, pdf_gerado>>
       ELSE /\ pdf_gerado' = "False"
            /\ pc' = "create_returned"
            /\ UNCHANGED <<output_pdf, open_docs>>
    /\ UNCHANGED <<doc, data, row_i, paginas_geradas, canvas, row_log, extVars, preVars, reqVars, normVars>>

RecordsUpTo(n) == UNION {[1..m -> RecordPool] : m \in 0..n}

InitCompose ==
    /\ pc = "create_begin"
    /\ doc \in DocsOver(ComposePages)
    /\ data \in RecordsUpTo(MaxRecords)
    /\ open_docs = {}
    /\ row_i = 0
    /\ paginas_geradas = 0
    /\ canvas = EmptyCanvas
    /\ row_log = <<>>
    /\ pdf_gerado = "none"
    /\ output_pdf = <<>>
    /\ PreIdle
    /\ ExtIdle
    /\ ReqIdle
    /\ NormIdle

NextCompose == ComposeBegin \/ ComposeRecord \/ ComposeReturn

SpecCompose == InitCompose /\ [][NextCompose]_vars

(***************************************************************************)
(* processar_pdf                                                           *)
(***************************************************************************)
PipelinePages == {"scenarioA", "codeLines", "image", "frag", "overflow"}

\* app.py:219-228: the two files mkstemp creates, both appended to temp_files
created_temp == {"input", "output"}

\* the pre-cleaned file a cleanup block looks for: none while the local cleaned_pdf
\* is unbound ('cleaned_pdf' in locals(), app.py:373) or equal to input_pdf
cleaned_temp == IF cleaned_pdf \in {"none", "input"} THEN {} ELSE {cleaned_pdf}

\* os.remove of each named file that os.path.exists finds
files_after_remove(names) == files \ names

\* temp_files.remove of each named path whose file was found and removed
temp_files_after_remove(names) == temp_files \ (names \cap files)

\* app.py:217-246: the temporary files are created and listed first; a request
\* without file or with an empty file name is then answered at once; otherwise the
\* upload is saved and pre-cleaned
ProcBegin ==
    /\ pc = "proc_begin"
    /\ files' = files \cup created_temp
    /\ temp_files' = temp_files \cup created_temp
    /\ IF request = "no_file"
       THEN response' = "400 Nenhum arquivo enviado" /\ pc' = "done"
       ELSE IF request = "empty_name"
       THEN response' = "400 Nome do arquivo vazio" /\ pc' = "done"
       ELSE response' = response /\ pc' = "preclean_begin"
    /\ UNCHANGED <<doc, open_docs, request, input_valid, extVars, preVars, genVars, normVars>>

\* app.py:246-256: a pre-cleaned file is listed in temp_files; extraction reads the
\* pre-cleaned file when one was written
ProcAfterPreclean ==
    /\ pc = "preclean_returned"
    /\ doc' = IF cleaned_pdf = "precleaned" THEN cleaned ELSE doc
    /\ temp_files' = IF cleaned_pdf # "input" THEN temp_files \cup {cleaned_pdf} ELSE temp_files
    /\ pc' = "extract_begin"
    /\ UNCHANGED <<open_docs, extVars, preVars, genVars, request, input_valid, response,
                   files, normVars>>

\* mutant: the records are composed without looking at how many there are
ProcAfterExtract_always_compose ==
    /\ pc = "extract_returned"
    /\ data' = extracted_data
    /\ pc' = "create_begin"
    /\ UNCHANGED <<doc, open_docs, extVars, preVars, reqVars, normVars,
                   row_i, paginas_geradas, canvas, row_log, pdf_gerado, output_pdf>>

\* app.py:256-259 and 333-355: records go to create_individual_page_pdf, no record
\* is answered with 'Nenhum dado extraído do PDF' after the temporary files are
\* removed
ProcAfterExtract ==
    /\ pc = "extract_returned"
    /\ IF extracted_data # <<>>
       THEN /\ data' = extracted_data
            /\ pc' = "create_begin"
            /\ response' = response
            /\ UNCHANGED <<files, temp_files>>
       ELSE /\ data' = data
            /\ pc' = "done"
            /\ response' = "400 Nenhum dado extraído do PDF"
            /\ files' = files_after_remove(created_temp \cup cleaned_temp)
            /\ temp_files' = temp_files_after_remove(created_temp \cup cleaned_temp)
    /\ UNCHANGED <<doc, open_docs, request, input_valid, extVars, preVars, normVars,
                   row_i, paginas_geradas, canvas, row_log, pdf_gerado, output_pdf>>

\* app.py:261-332: False is answered with 'Falha na geração do PDF' after the
\* temporary files are removed; otherwise cleanup_after_request is registered and
\* the output file is sent; when send_file raises, the input and output files are
\* removed and the exception is raised again
ProcAfterCreate ==
    /\ pc = "create_returned"
    /\ IF pdf_gerado = "False"
       THEN /\ response' = "500 Falha na geração do PDF"
            /\ pc' = "done"
            /\ files' = files_after_remove(created_temp \cup cleaned_temp)
            /\ temp_files' = temp_files_after_remove(created_temp \cup cleaned_temp)
       ELSE \/ /\ response' = "200 processado.pdf"
               /\ pc' = "after_request"
               /\ UNCHANGED <<files, temp_files>>
            \/ /\ response' = response
               /\ pc' = "raised"
               /\ files' = files_after_remove(created_temp)
               /\ temp_files' = temp_files_after_remove(created_temp)
    /\ UNCHANGED <<doc, open_docs, request, input_valid, extVars, preVars, genVars, normVars>>

\* app.py:357-392: any exception is answered with status 500 and its message after
\* the temporary files are removed; cleanup_after_request runs after the response
\* when it was registered (app.py:284-285)
ProcExcept ==
    /\ pc = "raised"
    /\ response' = "500 exception"
    /\ files' = files_after_remove(created_temp \cup cleaned_temp)
    /\ temp_files' = temp_files_after_remove(created_temp \cup cleaned_temp)
    /\ pc' = IF pdf_gerado = "True" THEN "after_request" ELSE "done"
    /\ UNCHANGED <<doc, open_docs, request, input_valid, extVars, preVars, genVars, normVars>>

\* app.py:284-308: cleanup_after_request, run by Flask once the response is made
CleanupAfterRequest ==
    /\ pc = "after_request"
    /\ files' = files_after_remove(created_temp \cup cleaned_temp)
    /\ temp_files' = temp_files_after_remove(created_temp \cup cleaned_temp)
    /\ pc' = "done"
    /\ UNCHANGED <<doc, open_docs, request, input_valid, response, extVars, preVars,
                   genVars, normVars>>

InitPipeline ==
    /\ pc = "proc_begin"
    /\ request \in {"no_file", "empty_name", "upload"}
    /\ input_valid \in BOOLEAN
    /\ doc \in DocsOver(PipelinePages)
    /\ (request # "upload" \/ ~input_valid) => doc = <<>>
    /\ request # "upload" => input_valid
    /\ response = "none"
    /\ files = {}
    /\ temp_files = {}
    /\ open_docs = {}
    /\ PreIdle
    /\ ExtIdle
    /\ GenIdle
    /\ NormIdle

NextPipeline ==
    \/ ProcBegin
    \/ PrecleanBegin \/ PrecleanPage \/ PrecleanReturn
    \/ ProcAfterPreclean
    \/ ExtractBegin \/ ExtractScan \/ ExtractReturn
    \/ ProcAfterExtract
    \/ ComposeBegin \/ ComposeRecord \/ ComposeReturn
    \/ ProcAfterCreate
    \/ ProcExcept
    \/ CleanupAfterRequest

SpecPipeline == InitPipeline /\ [][NextPipeline]_vars

(***************************************************************************)
(* Normalizing a description again and again                               *)
(***************************************************************************)
MaxPieces == 4
MaxNormalizations == 2
sSu == <<"S", "u">>
sPer == <<"p", "e", "r">>
NormPieces == {sSP, <<"■">>, <<"a">>, sSu, sPer, sNL}

RECURSIVE concat(_)
concat(parts) == IF parts = <<>> THEN <<>> ELSE Head(parts) \o concat(Tail(parts))

\* app.py:652-654 applied to the description, then to its own result
NormalizeStep ==
    /\ pc = "normalize"
    /\ Len(norm_out) < MaxNormalizations
    /\ norm_out' = Append(norm_out,
                          normalize_description(IF norm_out = <<>> THEN norm_in ELSE norm_out[Len(norm_out)]))
    /\ UNCHANGED <<pc, doc, open_docs, norm_in, wrap_in, wrap_out, extVars, preVars, genVars, reqVars>>

InitNormalize ==
    /\ pc = "normalize"
    /\ norm_in \in {concat(ps) : ps \in UNION {[1..n -> NormPieces] : n \in 0..MaxPieces}}
    /\ norm_out = <<>>
    /\ wrap_in = <<>>
    /\ wrap_out = <<>>
    /\ doc = <<>>
    /\ open_docs = {}
    /\ PreIdle
    /\ ExtIdle
    /\ GenIdle
    /\ ReqIdle

NextNormalize == NormalizeStep

SpecNormalize == InitNormalize /\ [][NextNormalize]_vars

(***************************************************************************)
(* Wrapping a text with quebrar_texto_inteligente                          *)
(***************************************************************************)
MaxTokens == 3
\* a token of n times the character c
Token(c, n) == [k \in 1..n |-> c]
\* tokens shorter than the width, of the width, one longer, and longer than twice
\* the width
WrapTokens == {Token("a", 3), Token("b", 60), Token("c", largura_maxima),
               Token("d", largura_maxima + 1), Token("e", 2 * largura_maxima + 1)}

\* app.py:689: the call with largura_maxima = 112
WrapStep ==
    /\ pc = "wrap"
    /\ wrap_out' = quebrar_texto_inteligente(wrap_in, largura_maxima)
    /\ pc' = "wrapped"
    /\ UNCHANGED <<doc, open_docs, norm_in, norm_out, wrap_in, extVars, preVars, genVars, reqVars>>

InitWrap ==
    /\ pc = "wrap"
    /\ wrap_in \in {join(sSP, ts) : ts \in UNION {[1..n -> WrapTokens] : n \in 0..MaxTokens}}
    /\ wrap_out = <<>>
    /\ norm_in = <<>>
    /\ norm_out = <<>>
    /\ doc = <<>>
    /\ open_docs = {}
    /\ PreIdle
    /\ ExtIdle
    /\ GenIdle
    /\ ReqIdle

NextWrap == WrapStep

SpecWrap == InitWrap /\ [][NextWrap]_vars

(***************************************************************************)
(* Claims about preclean_pdf_remove_overflow_by_blocks                     *)
(***************************************************************************)
\* pages the loop has been through, as 0-based indices
Processed == 0..(pre_i - 1)
\* the normalized text of page k of doc (0-based), from the normalized texts of the
\* pool computed once
NormOfPage == [p \in DOMAIN PagePool |-> norm_text(PagePool[p].text)]
NormOf(k) == NormOfPage[doc[k + 1]]
TokensOf(t) == {split(t)[k] : k \in 1..Len(split(t))}

\* similarity as the claim words it: one text contains the other, or the Jaccard
\* similarity of the token sets is at least 0.60; both texts non-empty
TextsSimilar(a, b) ==
    /\ a # <<>> /\ b # <<>>
    /\ \/ contains(a, b)
       \/ contains(b, a)
       \/ 100 * Cardinality(TokensOf(a) \cap TokensOf(b)) >= 60 * Cardinality(TokensOf(a) \cup TokensOf(b))

DroppedAs(k, tag) == k \in to_drop /\ tag \in drop_reasons[k + 1]

\* C4 (as stated): every page similar to the previous kept page is dropped as a
\* continuation.
C4_SimilarToPreviousKeptDropped ==
    \A k \in Processed :
        LET kept == {j \in 0..(k - 1) : j \notin to_drop}
        IN (kept # {} /\ TextsSimilar(NormOf(k), NormOf(SetMax(kept)))) => DroppedAs(k, "Continuation")

\* C4 (amended): every page that has no KEEP_HEADERS keyword and at least one
\* qualifying block, and whose normalized text is similar to the normalized text of
\* the page immediately before it (kept or dropped), is dropped as a continuation.
C4_SimilarToPreviousPageDropped ==
    \A k \in Processed :
        ( /\ k >= 1
          /\ ~has_keep_header(NormOf(k))
          /\ qualifying_blocks(load_page(doc, k)) # <<>>
          /\ TextsSimilar(NormOf(k), NormOf(k - 1)) ) => DroppedAs(k, "Continuation")

C4_Witness ==
    /\ pc = "preclean_returned"
    /\ doc = <<"body", "bodyJac", "frag">>
    /\ DroppedAs(1, "Continuation")
    /\ cleaned = <<"body">>

\* C5: a page whose normalized text contains a KEEP_HEADERS keyword is never in
\* to_drop, and its normalized text is the previous-page text for the next page.
C5_HeaderPagesKept ==
    /\ \A k \in Processed : has_keep_header(NormOf(k)) => k \notin to_drop
    /\ (pre_i >= 1 /\ has_keep_header(NormOf(pre_i - 1))) => prev_text_norm = NormOf(pre_i - 1)

C5_Witness ==
    /\ pc = "preclean_loop"
    /\ pre_i = 2
    /\ doc[1] = "body" /\ doc[2] = "bodyPeso"
    /\ to_drop = {}
    /\ prev_text_norm = norm_text(textBodyPeso)

RawBlockArea(b) == (b[3] - b[1]) * (b[4] - b[2])
TwoBlocksInTop30(pg) ==
    /\ Len(pg.blocks) = 2
    /\ \A n \in 1..2 : strip(pg.blocks[n][5]) # <<>> /\ 10 * pg.blocks[n][4] <= 3 * pg.H

\* C10 (as stated): a page without 'danfe' whose content is 2 text blocks within the
\* top 30% of the page height is dropped as a small fragment.
C10_TopBlocksDropped ==
    \A k \in Processed :
        (~contains(NormOf(k), kDanfe) /\ TwoBlocksInTop30(load_page(doc, k)))
            => DroppedAs(k, "SmallFragment")

\* C10 (amended): a page without any KEEP_HEADERS keyword whose content is 2 text
\* blocks, each of at least 0.03% of the page area, within the top 30% of the page
\* height and touching at most 2 of the 8 vertical bands, is dropped as a small
\* fragment.
C10_QualifyingTopBlocksDropped ==
    \A k \in Processed :
        LET pg == load_page(doc, k)
        IN ( /\ ~has_keep_header(NormOf(k))
             /\ TwoBlocksInTop30(pg)
             /\ \A n \in 1..2 : 10000 * RawBlockArea(pg.blocks[n]) >= 3 * pg.W * pg.H
             /\ Cardinality(v_occ_of(pg.blocks, pg.H)) <= 2 ) => DroppedAs(k, "SmallFragment")

C10_Witness ==
    /\ pc = "preclean_returned"
    /\ doc = <<"body", "frag", "fragWide">>
    /\ to_drop = {1}
    /\ cleaned = <<"body", "fragWide">>

(***************************************************************************)
(* Claims about extract_text_from_pdf                                      *)
(***************************************************************************)
DanfeOutcomes == {"record", "no_items", "exception", "no_key", "no_item_section"}

IsRecordValid(rec) ==
    /\ Len(rec[1]) >= 40
    /\ \A k \in 1..Len(rec[1]) : rec[1][k] \in UnicodeDigits
    /\ rec[2] # <<>>

\* C3: every record of extracted_data has an all-digit key of at least 40 digits and
\* a non-empty item list, and an iteration whose page fails either condition leaves
\* extracted_data as it was.
C3_RecordsValid ==
    /\ [](\A k \in 1..Len(extracted_data) : IsRecordValid(extracted_data[k]))
    /\ [][last_outcome' # "record" => extracted_data' = extracted_data]_vars

C3_Witness ==
    /\ pc = "extract_returned"
    /\ Len(extracted_data) = 2
    /\ \E k \in 1..Len(doc) : doc[k] = "shortKey"

\* C2 (as stated): for the document <<DANFE page of scenario A, image-only page>>,
\* extract_text_from_pdf returns exactly one record, with the 44-digit key and one
\* item (code ABC12345, description containing 'Blue Shoe Size 42', quantity 3), and
\* create_individual_page_pdf, when no library call fails, generates exactly 1 page
\* with page 2 (index 1) as artwork.
C2_ScenarioAOneRecordOnePage ==
    (request = "upload" /\ input_valid /\ doc = <<"scenarioA", "image">>) =>
        /\ pc = "extract_returned" =>
              /\ Len(extracted_data) = 1
              /\ extracted_data[1][1] = key44
              /\ Len(extracted_data[1][2]) = 1
              /\ extracted_data[1][2][1][1] = sABC12345
              /\ contains(extracted_data[1][2][1][2], sBlueShoe)
              /\ extracted_data[1][2][1][3] = sQty3
        /\ ( /\ pc = "create_returned"
             /\ \A k \in 1..Len(row_log) : row_log[k].outcome = "generated" /\ ~row_log[k].image_error )
              => /\ paginas_geradas = 1
                 /\ Len(output_pdf) = 1
                 /\ Mark("image", 0, 1) \in output_pdf[1]

(***************************************************************************)
(* Claims about processar_pdf                                              *)
(***************************************************************************)
\* C6: a finished request is answered 'Nenhum dado extraído do PDF' exactly when
\* extract_text_from_pdf returned zero records, and create_individual_page_pdf was
\* then never called; it is answered 'Falha na geração do PDF' exactly when at least
\* one record was extracted and create_individual_page_pdf generated zero pages; the
\* output PDF is sent only when at least one record was extracted and at least one
\* page was generated.
C6_FailureResponses ==
    pc = "done" =>
        /\ response = "400 Nenhum dado extraído do PDF"
              <=> (cleaned_pdf # "none" /\ extracted_data = <<>>)
        /\ response = "400 Nenhum dado extraído do PDF"
              => (data = <<>> /\ row_log = <<>> /\ pdf_gerado = "none")
        /\ response = "500 Falha na geração do PDF"
              <=> (extracted_data # <<>> /\ paginas_geradas = 0)
        /\ response = "200 processado.pdf"
              => (extracted_data # <<>> /\ paginas_geradas >= 1 /\ Len(output_pdf) >= 1)

C6_Witness ==
    /\ pc = "done"
    /\ response = "500 Falha na geração do PDF"
    /\ Len(extracted_data) >= 1
    /\ Len(row_log) = Len(extracted_data)

(***************************************************************************)
(* Claims about create_individual_page_pdf                                 *)
(***************************************************************************)
RowsOf(k) == Len(table_data_of(data[k][2]))
\* no artwork of row i (0-based) on any page of the canvas
NoArtworkOf(i) ==
    /\ \A n \in 1..Len(canvas.pages) : \A mk \in canvas.pages[n] : ~(mk[1] = "image" /\ mk[2] = i)
    /\ \A mk \in canvas.page : ~(mk[1] = "image" /\ mk[2] = i)

C8_StagesCloseDocuments ==
    /\ pc = "preclean_returned" => "preclean.doc" \notin open_docs
    /\ pc = "extract_returned" => "extract.doc" \notin open_docs
    /\ pc = "create_returned" => "create.doc" \notin open_docs
    /\ pc = "raised" => open_docs = {}

\* C9 (as stated): normalizing a normalized description gives the same text.
C9_NormalizeIdempotent ==
    Len(norm_out) >= 2 => norm_out[2] = norm_out[1]

(***************************************************************************)
(* Claims about the result of preclean_pdf_remove_overflow_by_blocks       *)
(***************************************************************************)
\* the pages of doc whose 0-based index is not in to_drop, each once, in order
PagesNotDropped ==
    LET kept == SelectSeq([n \in 1..Len(doc) |-> n - 1], LAMBDA k : k \notin to_drop)
    IN [n \in 1..Len(kept) |-> doc[kept[n] + 1]]

\* C11 (as stated): once the loop over the pages is over, the input path is returned,
\* and nothing written, if and only if no page is marked for dropping; otherwise a
\* document is written that holds exactly the pages whose index is not in to_drop,
\* each once, in their original order.
C11_InputOrKeptPages ==
    (pc \in {"preclean_returned", "raised"} /\ input_valid) =>
        /\ to_drop = {} <=> cleaned_pdf = "input"
        /\ to_drop = {} => cleaned = <<>>
        /\ to_drop # {} => (cleaned_pdf = "precleaned" /\ cleaned = PagesNotDropped)

(***************************************************************************)
(* Claims about the pages create_individual_page_pdf writes                *)
(***************************************************************************)
\* app.py:619-623, per item: three fields, a code and a description
ItemValid(item) == Len(item) >= 3 /\ item[1] # <<>> /\ item[2] # <<>>
AllItemsInvalid(k) == \A n \in 1..Len(data[k][2]) : ~ItemValid(data[k][2][n])
\* the pages committed so far, and the marks of row i (0-based) on a page
MarksOn(pg, i) == {mk \in pg : mk[2] = i}

\* C12 (as stated): a table drawn on a committed page has at least 1 row and at most
\* as many rows as its record has items, and a record whose items all fail the
\* per-item validity check has no page in the output.
C12_TableRowsAndNoPageForInvalid ==
    /\ \A n \in 1..Len(canvas.pages) : \A mk \in canvas.pages[n] :
          mk[1] = "table" => (mk[3] >= 1 /\ mk[3] <= Len(data[mk[2] + 1][2]))
    /\ pc = "create_returned" =>
          \A k \in 1..Len(data) :
              AllItemsInvalid(k) => \A n \in 1..Len(output_pdf) : MarksOn(output_pdf[n], k - 1) = {}

(***************************************************************************)
(* Claims about the item-line parser of extract_text_from_pdf              *)
(***************************************************************************)
\* the lines of the item section of page n (0-based) of the document
SectionLines(n) ==
    split_lines(strip(texto_completo_of(doc, n, find_item_index(load_page(doc, n).text, 1))))
\* enumerate index i reaches the line tests: the line is neither blank nor a header
ReachesTests(linhas, i) ==
    strip(linhas[i + 2]) # <<>> /\ strip(linhas[i + 2]) \notin skip_headers
AfterQuant(linhas, i) == i > 0 /\ contains(upper(linhas[i + 1]), sQUANT)
\* the lines that are neither skipped nor taken as a quantity, in order
BufferedLines(linhas) ==
    LET idx == SelectSeq([j \in 1..(Len(linhas) - 1) |-> j - 1],
                         LAMBDA i : /\ ReachesTests(linhas, i)
                                    /\ ~(AfterQuant(linhas, i) /\ isdigit(strip(linhas[i + 2]))))
    IN [n \in 1..Len(idx) |-> strip(linhas[idx[n] + 2])]

ParserStateAfter(linhas, i) ==
    parse_lines(SubSeq(linhas, 1, i + 2), 0,
                [item_atual |-> <<>>, quantidade_atual |-> sOne, itens |-> <<>>, raised |-> FALSE])

\* C14 (as stated): in an iteration whose previous line contains 'QUANT.', the
\* current quantity becomes the current line when that line is purely numeric, and
\* otherwise the line after the current line when that one is purely numeric.
C14_QuantityFromCurrentOrNextLine ==
    (last_page >= 0 /\ last_outcome \in {"record", "no_items"}) =>
        LET linhas == SectionLines(last_page)
        IN \A i \in 1..(Len(linhas) - 2) :
               (AfterQuant(linhas, i) /\ ReachesTests(linhas, i)) =>
                   IF isdigit(strip(linhas[i + 2]))
                   THEN ParserStateAfter(linhas, i).quantidade_atual = strip(linhas[i + 2])
                   ELSE (i + 3 <= Len(linhas) /\ isdigit(strip(linhas[i + 3])))
                            => ParserStateAfter(linhas, i).quantidade_atual = strip(linhas[i + 3])

(***************************************************************************)
(* Claims about product-code fragments                                     *)
(***************************************************************************)
\* t has one of the letters followed by two digits and six alphanumeric characters
\* (the first six of the 6 to 10)
HasCodeAfter(t, letters) ==
    \E k \in 1..(Len(t) - 8) :
        /\ t[k] \in letters
        /\ \A j \in 1..2 : t[k + j] \in AsciiDigits
        /\ \A j \in 3..8 : t[k + j] \in LowerAlnum
ReachesDropPredicates(k) ==
    ~has_keep_header(NormOf(k)) /\ qualifying_blocks(load_page(doc, k)) # <<>>
LacksMainStructure(t) ==
    ~(contains(t, kDanfe) /\ (contains(t, kDestinatario) \/ contains(t, kDocumentoAuxiliar)))

\* C15 (as stated): a page that reaches the drop predicates, whose normalized text
\* has any letter followed by two digits and 6 to 10 alphanumeric characters, lacks
\* the main-structure keywords and is shorter than 600 characters, is dropped as a
\* product-code fragment.
C15_AnyLetterCodeDropped ==
    \A k \in Processed :
        ( /\ ReachesDropPredicates(k)
          /\ HasCodeAfter(NormOf(k), {LowerLetters[n] : n \in 1..26})
          /\ LacksMainStructure(NormOf(k))
          /\ Len(NormOf(k)) < 600 ) => DroppedAs(k, "ProductFragment")

\* C15 (amended): the same with the letter 'i' (an 'I' or 'i' of the page text) in
\* place of any letter.
C15_LetterICodeDropped ==
    \A k \in Processed :
        ( /\ ReachesDropPredicates(k)
          /\ HasCodeAfter(NormOf(k), {"i"})
          /\ LacksMainStructure(NormOf(k))
          /\ Len(NormOf(k)) < 600 ) => DroppedAs(k, "ProductFragment")

C15_Witness ==
    /\ pc = "preclean_returned"
    /\ doc = <<"body", "prodCode", "prodCodeA">>
    /\ DroppedAs(1, "ProductFragment")
    /\ cleaned = <<"body", "prodCodeA">>

(***************************************************************************)
(* Claims about quebrar_texto_inteligente                                  *)
(***************************************************************************)
WrappedLines == IF wrap_out = <<>> THEN <<>> ELSE split_lines(wrap_out)

\* C16 (as stated): the lines returned for width 112 are each at most 112 characters
\* long, the tokens of the input are kept in order, and only a token that alone is
\* longer than 112 characters is split across lines.
C16_WrappedLinesWithinWidth ==
    pc = "wrapped" =>
        /\ \A n \in 1..Len(WrappedLines) : Len(WrappedLines[n]) <= 112
        /\ concat(split(wrap_out)) = concat(split(wrap_in))
        /\ \A k \in 1..Len(split(wrap_in)) :
              Len(split(wrap_in)[k]) <= 112
                  => \E j \in 1..Len(split(wrap_out)) : split(wrap_out)[j] = split(wrap_in)[k]

(***************************************************************************)
(* Claims about the output of create_individual_page_pdf                   *)
(***************************************************************************)
Composed(i) == i + 1 \in 1..Len(row_log) /\ row_log[i + 1].outcome = "generated"

\* C17 (as stated): every page of the final PDF carries marks of exactly one record,
\* and that record was composed successfully; nothing drawn for a skipped record is
\* in the output.
C17_PagesOfOneComposedRecord ==
    (pc = "create_returned" /\ pdf_gerado = "True") =>
        \A n \in 1..Len(output_pdf) :
            \E i \in 0..(Len(data) - 1) :
                Composed(i) /\ \A mk \in output_pdf[n] : mk[2] = i

\* C18 (as stated): the k-th page of the output carries the label 'Pk' and no other
\* label, and the generated-page count equals the number of pages of the output.
C18_LabelsMatchPages ==
    (pc = "create_returned" /\ pdf_gerado = "True") =>
        /\ Len(output_pdf) = paginas_geradas
        /\ \A k \in 1..Len(output_pdf) :
              {mk[3] : mk \in {m \in output_pdf[k] : m[1] = "label"}} = {k}

(***************************************************************************)
(* C19: for a document of N pages the scan loop of extract_text_from_pdf   *)
(* terminates: every iteration starts at an index below N, raises the      *)
(* index by 1 or by 2, examines a page after the one the iteration before  *)
(* examined (so no page is a scan start twice and there are at most N      *)
(* iterations), the function returns as soon as the index is >= N, and it  *)
(* does return.                                                            *)
(***************************************************************************)
ScanIteration == pc = "extract_scan" /\ pc' = "extract_scan"

C19_ScanLoopTerminates ==
    /\ [][ScanIteration =>
            /\ page_num < Len(doc)
            /\ page_num' - page_num \in {1, 2}
            /\ last_page' = page_num
            /\ last_page' > last_page]_vars
    /\ [][(pc = "extract_scan" /\ page_num >= Len(doc)) => pc' = "extract_returned"]_vars
    /\ [](last_page < Len(doc) \/ Len(doc) = 0)
    /\ <>(pc = "extract_returned")

C19_Witness ==
    /\ pc = "extract_returned"
    /\ Len(doc) >= 3
    /\ last_page = Len(doc) - 1
    /\ page_num > Len(doc)
    /\ extracted_data # <<>>

(***************************************************************************)
(* C20: once a request to processar_pdf has completed, whichever way it    *)
(* left (no file, empty file name, no record, generation failure, file     *)
(* sent, exception), none of its temporary input, output and pre-cleaned   *)
(* files is on disk and none of their paths is in temp_files.              *)
(***************************************************************************)
C20_TempFilesReleased ==
    pc = "done" => (files = {} /\ temp_files = {})

=============================================================================
